---- MODULE Spec2Model ----
(***************************************************************************)
(* Model of paperless-forwarder (src/app.py): the routing decision         *)
(* decide_and_route, the processed-documents ledger, and the poll loop of  *)
(* main() with its external calls (Paperless, Ollama, SMTP).               *)
(*                                                                         *)
(* Confidences are percentages (0.35 -> 35).  A text is a sequence of      *)
(* tokens (words or whitespace runs); the string operations of the signal  *)
(* extractor are computed token by token.                                  *)
(***************************************************************************)
EXTENDS Integers, Sequences, FiniteSets, TLC

VARIABLES
    MAX_DOCS,       \* configuration MAX_DOCS_PER_LOOP, read once at startup
    nDocs,          \* Paperless: documents 1..nDocs exist, ids ascend with creation
    repoText,       \* Paperless: doc id -> OCR text ("content")
    labels,         \* Paperless: doc id -> set of tags on the document
    mailbox,        \* SMTP relay: set of <<doc id, topic>> delivered so far
    ledger,         \* table processed_docs: set of [doc_id, processed_utc]
    clock,          \* time.time()
    pc,             \* position of main() at its next external call
    docs,           \* main: docs (the page fetched by this iteration)
    idx,            \* main: position of the for loop in docs
    text,           \* main: text
    gate,           \* main: gate
    meta,           \* main: meta
    decision,       \* main: decision
    forwarded_any,  \* main: forwarded_any
    evalDoc,        \* observation: doc id of the evaluation recorded in trace
    trace,          \* observation: external calls of that evaluation, in order
    last,           \* observation: kind of the step main() took last
    faults          \* number of injected failures and crashes so far

vars == <<MAX_DOCS, nDocs, repoText, labels, mailbox, ledger, clock, pc, docs, idx, text,
          gate, meta, decision, forwarded_any, evalDoc, trace, last, faults>>

(***************************************************************************)
(* Bounds of the model                                                     *)
(***************************************************************************)
NumDocs == 2
MaxFaults == 1
MaxClock == 1
MaxTextLen == 2
MaxLedgerClock == 3

(***************************************************************************)
(* Configuration                                                           *)
(***************************************************************************)
GATE_INVOICE_MIN == 35
INVOICE_CONFIDENCE_MIN == 60
TOPIC_CONFIDENCE_MIN == 50
PageSizes == {1, 2}
POLL_SECONDS == 1

KEYWORDS_FARMING == <<"traktor">>
KEYWORDS_IT == <<"server">>
MATCH_IBANS == <<"DE89370400440532013000">>

\* dict.get on an absent key, and a JSON null
MISSING == -1
NONE == -2

(***************************************************************************)
(* Texts                                                                   *)
(***************************************************************************)
WS == " "
IBAN_TOKEN == "DE89 3704 0044 0532 0130 00"
SHORT_IBAN_TOKEN == "DE89 3704 0044"

Tokens == {WS, "x", "Traktor", "server", IBAN_TOKEN, SHORT_IBAN_TOKEN}

SeqsUpTo(S, n) == UNION {[1..k -> S] : k \in 0..n}

\* str.lower()
Lower(tok) == IF tok = "Traktor" THEN "traktor"
              ELSE IF tok = IBAN_TOKEN THEN "de89 3704 0044 0532 0130 00"
              ELSE IF tok = SHORT_IBAN_TOKEN THEN "de89 3704 0044"
              ELSE tok

\* variant: "not text", without the strip
IsBlankNoStrip(t) == t = <<>>
\* text.strip() is empty
IsBlank(t) == \A i \in 1..Len(t) : t[i] = WS

contains_any(t, kws) ==
    \E i \in 1..Len(kws) : kws[i] # "" /\ \E j \in 1..Len(t) : Lower(t[j]) = kws[i]

\* IBAN_REGEX matches the token
IbanShaped(tok) == tok \in {IBAN_TOKEN, SHORT_IBAN_TOKEN}
\* re.sub(r"\s+", "", m.group(0).upper())
Normalized(tok) == IF tok = IBAN_TOKEN THEN "DE89370400440532013000"
                   ELSE IF tok = SHORT_IBAN_TOKEN THEN "DE8937040044"
                   ELSE tok
\* len() of a normalized identifier
StrLen(s) == IF s = "DE89370400440532013000" THEN 22
             ELSE IF s = "DE8937040044" THEN 12
             ELSE 1

extract_ibans(t) ==
    {Normalized(t[i]) : i \in {j \in 1..Len(t) :
        IbanShaped(t[j]) /\ StrLen(Normalized(t[j])) >= 15 /\ StrLen(Normalized(t[j])) <= 34}}

matches_specific_iban(t) ==
    IF MATCH_IBANS = <<>> THEN FALSE
    ELSE \E i \in 1..Len(MATCH_IBANS) : MATCH_IBANS[i] \in extract_ibans(t)

(***************************************************************************)
(* Classifier results                                                      *)
(***************************************************************************)
\* float(v or 0.0) for a number or null
FloatOr0(v) == IF v = NONE \/ v = MISSING THEN 0 ELSE v

\* float(meta.get("invoice_confidence", meta.get("confidence", 0.0)) or 0.0)
InvoiceConfidence(m) ==
    FloatOr0(IF m.invoice_confidence = MISSING
             THEN (IF m.confidence = MISSING THEN 0 ELSE m.confidence)
             ELSE m.invoice_confidence)

\* variant: the threshold itself does not pass
RunBigAboveOnly(g) == g.is_invoice /\ FloatOr0(g.confidence) > GATE_INVOICE_MIN
\* bool(gate.get("is_invoice")) and float(gate.get("confidence", 0.0) or 0.0) >= GATE_INVOICE_MIN
run_big(g) == g.is_invoice /\ FloatOr0(g.confidence) >= GATE_INVOICE_MIN

\* variant: the synthesized result keeps the gate's is_invoice
SynthMetaKeepsInvoice(g) ==
    [is_invoice |-> g.is_invoice,
     invoice_confidence |-> FloatOr0(g.confidence),
     confidence |-> MISSING,
     is_farming_related |-> g.is_farming_related,
     farming_confidence |-> FloatOr0(g.farming_confidence),
     is_it_related |-> g.is_it_related,
     it_confidence |-> FloatOr0(g.it_confidence),
     it_deductible_for_tax |-> FALSE]
\* the result synthesized from the gate when the extract stage is skipped
SynthMeta(g) ==
    [is_invoice |-> FALSE,
     invoice_confidence |-> FloatOr0(g.confidence),
     confidence |-> MISSING,
     is_farming_related |-> g.is_farming_related,
     farming_confidence |-> FloatOr0(g.farming_confidence),
     is_it_related |-> g.is_it_related,
     it_confidence |-> FloatOr0(g.it_confidence),
     it_deductible_for_tax |-> FALSE]

Bools == {TRUE, FALSE}

Metas ==
    [is_invoice : Bools,
     invoice_confidence : {MISSING, NONE, 59, 60},
     confidence : {MISSING, 90},
     is_farming_related : Bools,
     farming_confidence : {49, 50},
     is_it_related : Bools,
     it_confidence : {49, 50},
     it_deductible_for_tax : Bools]

(***************************************************************************)
(* Decision logic                                                          *)
(***************************************************************************)
ai_farm(m) == m.is_farming_related /\ FloatOr0(m.farming_confidence) >= TOPIC_CONFIDENCE_MIN
ai_it(m) == m.is_it_related /\ FloatOr0(m.it_confidence) >= TOPIC_CONFIDENCE_MIN
\* variant: the classifier's flag alone, without "and ai_it"
ItDeductibleFlagOnly(m) == m.it_deductible_for_tax
it_deductible(m) == m.it_deductible_for_tax /\ ai_it(m)

keyword_match(t) == contains_any(t, KEYWORDS_FARMING) \/ contains_any(t, KEYWORDS_IT)

\* reasons as built before the invoice gate
SignalReasons(m, t) ==
    (IF matches_specific_iban(t) THEN <<"iban">> ELSE <<>>)
    \o (IF keyword_match(t) THEN <<"keyword">> ELSE <<>>)
    \o (IF ai_farm(m) THEN <<"ai_farm">> ELSE <<>>)
    \o (IF ai_it(m) THEN <<"ai_it">> ELSE <<>>)
    \o (IF it_deductible(m) THEN <<"it_deductible">> ELSE <<>>)

\* variant: IT relatedness is a trigger of its own
TriggersAnyAi(m, t) ==
    matches_specific_iban(t) \/ keyword_match(t) \/ ai_farm(m) \/ ai_it(m) \/ it_deductible(m)
triggers(m, t) ==
    matches_specific_iban(t) \/ keyword_match(t) \/ ai_farm(m) \/ it_deductible(m)

forward_farm_rule(m, t) == triggers(m, t) /\ (ai_farm(m) \/ contains_any(t, KEYWORDS_FARMING))

\* variant: IT relatedness forwards without the deductible flag
ForwardItOnAiRelated(m, t) ==
    triggers(m, t) /\ (ai_it(m) \/ it_deductible(m) \/ contains_any(t, KEYWORDS_IT))
forward_it_rule(m, t) == triggers(m, t) /\ (it_deductible(m) \/ contains_any(t, KEYWORDS_IT))

Signals(m, t) ==
    [invoice |-> m.is_invoice, invoice_conf |-> InvoiceConfidence(m),
     iban_match |-> matches_specific_iban(t), keyword_match |-> keyword_match(t),
     ai_farm |-> ai_farm(m), ai_it |-> ai_it(m), it_deductible |-> it_deductible(m)]

WithRouting(sig, ff, fi, rs) ==
    [invoice |-> sig.invoice, invoice_conf |-> sig.invoice_conf,
     iban_match |-> sig.iban_match, keyword_match |-> sig.keyword_match,
     ai_farm |-> sig.ai_farm, ai_it |-> sig.ai_it, it_deductible |-> sig.it_deductible,
     forward_farm |-> ff, forward_it |-> fi, reasons |-> rs]

\* variant: the early return hands back no reasons
GatedDecisionNoReasons(m, t) == WithRouting(Signals(m, t), FALSE, FALSE, <<>>)
\* the early return of the invoice gate
GatedDecision(m, t) == WithRouting(Signals(m, t), FALSE, FALSE, SignalReasons(m, t))

\* variant: the fallback defaults to the IT mailbox
RoutedDecisionDefaultIt(m, t) ==
    LET fallback == triggers(m, t) /\ ~forward_farm_rule(m, t) /\ ~forward_it_rule(m, t)
    IN  WithRouting(Signals(m, t),
                    forward_farm_rule(m, t),
                    forward_it_rule(m, t) \/ fallback,
                    SignalReasons(m, t) \o (IF fallback THEN <<"default_farm">> ELSE <<>>))
\* the forward rule and the default-to-farm fallback
RoutedDecision(m, t) ==
    LET fallback == triggers(m, t) /\ ~forward_farm_rule(m, t) /\ ~forward_it_rule(m, t)
    IN  WithRouting(Signals(m, t),
                    forward_farm_rule(m, t) \/ fallback,
                    forward_it_rule(m, t),
                    SignalReasons(m, t) \o (IF fallback THEN <<"default_farm">> ELSE <<>>))

\* variant: the gate tests the confidence alone
BelowGateConfidenceOnly(m) == InvoiceConfidence(m) < INVOICE_CONFIDENCE_MIN
\* (not invoice) or inv_conf < INVOICE_CONFIDENCE_MIN
BelowInvoiceGate(m) == (~m.is_invoice) \/ InvoiceConfidence(m) < INVOICE_CONFIDENCE_MIN

decide_and_route(m, t) ==
    IF BelowInvoiceGate(m) THEN GatedDecision(m, t) ELSE RoutedDecision(m, t)

NoDecision == WithRouting([invoice |-> FALSE, invoice_conf |-> 0, iban_match |-> FALSE,
                           keyword_match |-> FALSE, ai_farm |-> FALSE, ai_it |-> FALSE,
                           it_deductible |-> FALSE], FALSE, FALSE, <<"none">>)

(***************************************************************************)
(* Ledger (table processed_docs)                                           *)
(***************************************************************************)
DoneIds == {e.doc_id : e \in ledger}

\* variant: the ledger is never consulted
AlreadyDoneNever(L, id) == FALSE
already_done(L, id) == \E e \in L : e.doc_id = id

\* variant: INSERT OR REPLACE
MarkDoneReplace(L, id, now) ==
    {e \in L : e.doc_id # id} \cup {[doc_id |-> id, processed_utc |-> now]}
\* INSERT OR IGNORE on the primary key doc_id
mark_done(L, id, now) ==
    IF \E e \in L : e.doc_id = id THEN L
    ELSE L \cup {[doc_id |-> id, processed_utc |-> now]}

(***************************************************************************)
(* Paperless                                                               *)
(***************************************************************************)
Tags == {"ai", "invoice", "forwarded", "not_forwarded", "reason_iban",
         "reason_keyword", "topic_farm", "topic_it", "it_deductible"}

Min(a, b) == IF a <= b THEN a ELSE b

\* ordering=-created, page_size=MAX_DOCS
paperless_get_docs(n, page_size) == [i \in 1..Min(n, page_size) |-> n - i + 1]

\* variant: the PATCH carries the given ids alone
AddTagsOverwrite(current, tag_ids) == tag_ids
\* current.union(set(tag_ids))
add_tags_to_document(current, tag_ids) == current \cup tag_ids

\* variant: the topic_it tag is left out
ToAddWithoutTopicIt(dec) ==
    {"forwarded"}
    \cup (IF dec.iban_match THEN {"reason_iban"} ELSE {})
    \cup (IF dec.keyword_match THEN {"reason_keyword"} ELSE {})
    \cup (IF dec.ai_farm THEN {"topic_farm"} ELSE {})
    \cup (IF dec.it_deductible THEN {"it_deductible"} ELSE {})
\* the tags of the forwarding outcome
to_add(dec) ==
    {"forwarded"}
    \cup (IF dec.iban_match THEN {"reason_iban"} ELSE {})
    \cup (IF dec.keyword_match THEN {"reason_keyword"} ELSE {})
    \cup (IF dec.ai_farm THEN {"topic_farm"} ELSE {})
    \cup (IF dec.ai_it THEN {"topic_it"} ELSE {})
    \cup (IF dec.it_deductible THEN {"it_deductible"} ELSE {})

(***************************************************************************)
(* Inputs of the poll loop                                                 *)
(***************************************************************************)
G(inv, conf) ==
    [is_invoice |-> inv, confidence |-> conf,
     is_farming_related |-> TRUE, farming_confidence |-> 90,
     is_it_related |-> FALSE, it_confidence |-> 0]

GateResults == {G(TRUE, 35), G(TRUE, 34), G(FALSE, 35)}

M(inv, conf, farm, it, ded) ==
    [is_invoice |-> inv, invoice_confidence |-> conf, confidence |-> MISSING,
     is_farming_related |-> farm, farming_confidence |-> 90,
     is_it_related |-> it, it_confidence |-> 90,
     it_deductible_for_tax |-> ded]

LoopMetas ==
    {M(FALSE, 90, TRUE, FALSE, FALSE),
     M(TRUE, 59, TRUE, FALSE, FALSE),
     M(TRUE, 90, FALSE, FALSE, FALSE),
     M(TRUE, 90, FALSE, TRUE, TRUE),
     M(TRUE, 90, TRUE, TRUE, TRUE)}

LoopTexts == {<<IBAN_TOKEN>>}

NoGate == [is_invoice |-> FALSE, confidence |-> MISSING,
           is_farming_related |-> FALSE, farming_confidence |-> MISSING,
           is_it_related |-> FALSE, it_confidence |-> MISSING]
NoMeta == [is_invoice |-> FALSE, invoice_confidence |-> MISSING, confidence |-> MISSING,
           is_farming_related |-> FALSE, farming_confidence |-> MISSING,
           is_it_related |-> FALSE, it_confidence |-> MISSING,
           it_deductible_for_tax |-> FALSE]

Call(op, ok, tags) == [op |-> op, ok |-> ok, tags |-> tags]

(***************************************************************************)
(* Control flow of one evaluation between external calls                   *)
(***************************************************************************)
\* variant: the not_forwarded tag does not depend on decision["invoice"]
AfterDispatchAlwaysTags(dec, fa) == "tag_outcome"
AfterDispatch(dec, fa) ==
    IF fa THEN "tag_outcome" ELSE IF dec.invoice THEN "tag_outcome" ELSE "mark_done"
\* variant: the second send is an elif of the first
AfterSendFarmOnly(dec) == AfterDispatch(dec, TRUE)
AfterSendFarm(dec) == IF dec.forward_it THEN "send_it" ELSE AfterDispatch(dec, TRUE)
AfterDownload(dec) ==
    IF dec.forward_farm THEN "send_farm"
    ELSE IF dec.forward_it THEN "send_it" ELSE AfterDispatch(dec, FALSE)
AfterInvoiceTag(dec) ==
    IF dec.forward_farm \/ dec.forward_it THEN "download" ELSE AfterDispatch(dec, FALSE)
AfterTagAi(dec) == IF dec.invoice THEN "tag_invoice" ELSE AfterInvoiceTag(dec)

doc_id == docs[idx]

\* The locals of an evaluation are kept at their initial values outside it: the
\* code assigns each of them again before it reads it.
Forget ==
    /\ text' = <<>> /\ gate' = NoGate /\ meta' = NoMeta /\ decision' = NoDecision
    /\ forwarded_any' = FALSE

\* variant: the try is inside the for loop, the loop goes on with the next document
RaiseContinue(tr) ==
    /\ faults < MaxFaults
    /\ faults' = faults + 1
    /\ pc' = "for"
    /\ idx' = idx + 1
    /\ last' = "error"
    /\ trace' = tr
    /\ Forget
    /\ UNCHANGED <<MAX_DOCS, nDocs, repoText, labels, mailbox, ledger, clock, docs, evalDoc>>
\* variant: no except clause, the exception ends the process
RaiseUncaught(tr) ==
    /\ faults < MaxFaults
    /\ faults' = faults + 1
    /\ pc' = "exited"
    /\ last' = "error"
    /\ trace' = tr
    /\ Forget
    /\ UNCHANGED <<MAX_DOCS, nDocs, repoText, labels, mailbox, ledger, clock, docs, idx, evalDoc>>
\* a call raises, tr being the calls made so far:
\* except Exception as e: log("ERROR:", repr(e)); then time.sleep
Raise(tr) ==
    /\ faults < MaxFaults
    /\ faults' = faults + 1
    /\ pc' = "sleep"
    /\ last' = "error"
    /\ trace' = tr
    /\ Forget
    /\ UNCHANGED <<MAX_DOCS, nDocs, repoText, labels, mailbox, ledger, clock, docs, idx, evalDoc>>

(***************************************************************************)
(* The poll loop of main(): one action per external call, with the local   *)
(* computation that follows it up to the next call                         *)
(***************************************************************************)
\* docs = paperless_get_docs()
PollOk ==
    /\ pc = "poll"
    /\ docs' = paperless_get_docs(nDocs, MAX_DOCS)
    /\ idx' = 1
    /\ pc' = "for"
    /\ last' = "ok"
    /\ UNCHANGED <<MAX_DOCS, nDocs, repoText, labels, mailbox, ledger, clock, text, gate, meta,
                   decision, forwarded_any, evalDoc, trace, faults>>

PollFail == pc = "poll" /\ Raise(trace)

\* for d in docs, exhausted: on to time.sleep
ForEnd ==
    /\ pc = "for"
    /\ idx > Len(docs)
    /\ pc' = "sleep"
    /\ last' = "ok"
    /\ UNCHANGED <<MAX_DOCS, nDocs, repoText, labels, mailbox, ledger, clock, docs, idx, text, gate,
                   meta, decision, forwarded_any, evalDoc, trace, faults>>

\* if already_done(doc_id): continue
ForDone ==
    /\ pc = "for"
    /\ idx <= Len(docs)
    /\ already_done(ledger, doc_id)
    /\ idx' = idx + 1
    /\ last' = "ok"
    /\ UNCHANGED <<MAX_DOCS, nDocs, repoText, labels, mailbox, ledger, clock, pc, docs, text, gate,
                   meta, decision, forwarded_any, evalDoc, trace, faults>>

\* already_done(doc_id) is false: the evaluation of doc_id begins
ForBegin ==
    /\ pc = "for"
    /\ idx <= Len(docs)
    /\ ~already_done(ledger, doc_id)
    /\ pc' = "get_text"
    /\ evalDoc' = doc_id
    /\ trace' = <<>>
    /\ last' = "ok"
    /\ UNCHANGED <<MAX_DOCS, nDocs, repoText, labels, mailbox, ledger, clock, docs, idx, text, gate,
                   meta, decision, forwarded_any, faults>>

\* text = paperless_get_text(doc_id), text not blank
GetTextOk ==
    /\ pc = "get_text"
    /\ ~IsBlank(repoText[doc_id])
    /\ text' = repoText[doc_id]
    /\ trace' = Append(trace, Call("get_text", TRUE, {}))
    /\ pc' = "gate"
    /\ last' = "ok"
    /\ UNCHANGED <<MAX_DOCS, nDocs, repoText, labels, mailbox, ledger, clock, docs, idx, gate, meta,
                   decision, forwarded_any, evalDoc, faults>>

\* variant: the empty document is marked done
GetTextSkipMarksDone ==
    /\ pc = "get_text"
    /\ IsBlank(repoText[doc_id])
    /\ ledger' = mark_done(ledger, doc_id, clock)
    /\ idx' = idx + 1
    /\ pc' = "for"
    /\ trace' = Append(trace, Call("get_text", TRUE, {}))
    /\ last' = "skip"
    /\ UNCHANGED <<MAX_DOCS, nDocs, repoText, labels, mailbox, clock, docs, text, gate, meta,
                   decision, forwarded_any, evalDoc, faults>>
\* text = paperless_get_text(doc_id); if not text.strip(): continue
GetTextSkip ==
    /\ pc = "get_text"
    /\ IsBlank(repoText[doc_id])
    /\ idx' = idx + 1
    /\ pc' = "for"
    /\ trace' = Append(trace, Call("get_text", TRUE, {}))
    /\ last' = "skip"
    /\ UNCHANGED <<MAX_DOCS, nDocs, repoText, labels, mailbox, ledger, clock, docs, text, gate, meta,
                   decision, forwarded_any, evalDoc, faults>>

GetTextFail == pc = "get_text" /\ Raise(Append(trace, Call("get_text", FALSE, {})))

\* gate = ollama_generate(GATE_MODEL, gate_prompt); run_big; the synthesized meta
GateOk ==
    /\ pc = "gate"
    /\ \E g \in GateResults :
         /\ gate' = g
         /\ IF run_big(g)
            THEN meta' = meta /\ pc' = "extract"
            ELSE meta' = SynthMeta(g) /\ pc' = "tag_ai"
    /\ trace' = Append(trace, Call("gate", TRUE, {}))
    /\ last' = "ok"
    /\ UNCHANGED <<MAX_DOCS, nDocs, repoText, labels, mailbox, ledger, clock, docs, idx, text,
                   decision, forwarded_any, evalDoc, faults>>

GateFail == pc = "gate" /\ Raise(Append(trace, Call("gate", FALSE, {})))

\* meta = ollama_generate(EXTRACT_MODEL, extract_prompt)
ExtractOk ==
    /\ pc = "extract"
    /\ meta' \in LoopMetas
    /\ pc' = "tag_ai"
    /\ trace' = Append(trace, Call("extract", TRUE, {}))
    /\ last' = "ok"
    /\ UNCHANGED <<MAX_DOCS, nDocs, repoText, labels, mailbox, ledger, clock, docs, idx, text,
                   gate, decision, forwarded_any, evalDoc, faults>>

ExtractFail == pc = "extract" /\ Raise(Append(trace, Call("extract", FALSE, {})))

\* add_tags_to_document(doc_id, [tags["ai"]]); decision = decide_and_route(meta, text)
TagAiOk ==
    /\ pc = "tag_ai"
    /\ labels' = [labels EXCEPT ![doc_id] = add_tags_to_document(@, {"ai"})]
    /\ decision' = decide_and_route(meta, text)
    /\ forwarded_any' = FALSE
    /\ pc' = AfterTagAi(decision')
    /\ trace' = Append(trace, Call("tag", TRUE, {"ai"}))
    /\ last' = "ok"
    /\ UNCHANGED <<MAX_DOCS, nDocs, repoText, mailbox, ledger, clock, docs, idx, text, gate, meta,
                   evalDoc, faults>>

TagAiFail == pc = "tag_ai" /\ Raise(Append(trace, Call("tag", FALSE, {"ai"})))

\* if decision["invoice"]: add_tags_to_document(doc_id, [tags["invoice"]])
TagInvoiceOk ==
    /\ pc = "tag_invoice"
    /\ labels' = [labels EXCEPT ![doc_id] = add_tags_to_document(@, {"invoice"})]
    /\ pc' = AfterInvoiceTag(decision)
    /\ trace' = Append(trace, Call("tag", TRUE, {"invoice"}))
    /\ last' = "ok"
    /\ UNCHANGED <<MAX_DOCS, nDocs, repoText, mailbox, ledger, clock, docs, idx, text, gate, meta,
                   decision, forwarded_any, evalDoc, faults>>

TagInvoiceFail == pc = "tag_invoice" /\ Raise(Append(trace, Call("tag", FALSE, {"invoice"})))

\* pdf = download_pdf_bytes(doc_id)
DownloadOk ==
    /\ pc = "download"
    /\ pc' = AfterDownload(decision)
    /\ trace' = Append(trace, Call("download", TRUE, {}))
    /\ last' = "ok"
    /\ UNCHANGED <<MAX_DOCS, nDocs, repoText, labels, mailbox, ledger, clock, docs, idx, text,
                   gate, meta, decision, forwarded_any, evalDoc, faults>>

DownloadFail == pc = "download" /\ Raise(Append(trace, Call("download", FALSE, {})))

\* send_email_with_pdf(FARM_FORWARD_TO, ...); forwarded_any = True
SendFarmOk ==
    /\ pc = "send_farm"
    /\ mailbox' = mailbox \cup {<<doc_id, "farm">>}
    /\ forwarded_any' = TRUE
    /\ pc' = AfterSendFarm(decision)
    /\ trace' = Append(trace, Call("send_farm", TRUE, {}))
    /\ last' = "ok"
    /\ UNCHANGED <<MAX_DOCS, nDocs, repoText, labels, ledger, clock, docs, idx, text, gate, meta,
                   decision, evalDoc, faults>>

SendFarmFail == pc = "send_farm" /\ Raise(Append(trace, Call("send_farm", FALSE, {})))

\* send_email_with_pdf(IT_FORWARD_TO, ...); forwarded_any = True
SendItOk ==
    /\ pc = "send_it"
    /\ mailbox' = mailbox \cup {<<doc_id, "it">>}
    /\ forwarded_any' = TRUE
    /\ pc' = AfterDispatch(decision, TRUE)
    /\ trace' = Append(trace, Call("send_it", TRUE, {}))
    /\ last' = "ok"
    /\ UNCHANGED <<MAX_DOCS, nDocs, repoText, labels, ledger, clock, docs, idx, text, gate, meta,
                   decision, evalDoc, faults>>

SendItFail == pc = "send_it" /\ Raise(Append(trace, Call("send_it", FALSE, {})))

\* variant: the forwarded branch is taken whatever forwarded_any is
OutcomeTagsAlwaysForwarded(dec, fa) == to_add(dec)
\* the tags written for the outcome: to_add after forwarding, not_forwarded otherwise
OutcomeTags(dec, fa) == IF fa THEN to_add(dec) ELSE {"not_forwarded"}

\* if forwarded_any: add_tags_to_document(doc_id, to_add)
\* else: if decision["invoice"]: add_tags_to_document(doc_id, [tags["not_forwarded"]])
TagOutcomeOk ==
    /\ pc = "tag_outcome"
    /\ labels' = [labels EXCEPT
                    ![doc_id] = add_tags_to_document(@, OutcomeTags(decision, forwarded_any))]
    /\ pc' = "mark_done"
    /\ trace' = Append(trace, Call("tag", TRUE, OutcomeTags(decision, forwarded_any)))
    /\ last' = "ok"
    /\ UNCHANGED <<MAX_DOCS, nDocs, repoText, mailbox, ledger, clock, docs, idx, text, gate, meta,
                   decision, forwarded_any, evalDoc, faults>>

TagOutcomeFail ==
    pc = "tag_outcome" /\ Raise(Append(trace, Call("tag", FALSE, OutcomeTags(decision, forwarded_any))))

\* mark_done(doc_id), and on to the next d of the for loop
MarkDone ==
    /\ pc = "mark_done"
    /\ ledger' = mark_done(ledger, doc_id, clock)
    /\ idx' = idx + 1
    /\ pc' = "for"
    /\ trace' = Append(trace, Call("mark_done", TRUE, {}))
    /\ last' = "ok"
    /\ Forget
    /\ UNCHANGED <<MAX_DOCS, nDocs, repoText, labels, mailbox, clock, docs, evalDoc, faults>>

\* time.sleep(POLL_SECONDS), and back to the top of while True
Sleep ==
    /\ pc = "sleep"
    /\ clock' = Min(clock + POLL_SECONDS, MaxClock)
    /\ pc' = "poll"
    /\ last' = "ok"
    /\ UNCHANGED <<MAX_DOCS, nDocs, repoText, labels, mailbox, ledger, docs, idx, text, gate, meta,
                   decision, forwarded_any, evalDoc, trace, faults>>

\* the process is killed and started again: main() up to while True
Crash ==
    /\ pc # "poll"
    /\ faults < MaxFaults
    /\ faults' = faults + 1
    /\ pc' = "poll"
    /\ docs' = <<>> /\ idx' = 1
    /\ text' = <<>> /\ gate' = NoGate /\ meta' = NoMeta /\ decision' = NoDecision
    /\ forwarded_any' = FALSE
    /\ last' = "crash"
    /\ UNCHANGED <<MAX_DOCS, nDocs, repoText, labels, mailbox, ledger, clock, evalDoc, trace>>

(***************************************************************************)
(* The environment: documents are ingested and their OCR completes         *)
(***************************************************************************)
NewDoc ==
    /\ nDocs < NumDocs
    /\ nDocs' = nDocs + 1
    /\ UNCHANGED <<MAX_DOCS, repoText, labels, mailbox, ledger, clock, pc, docs, idx, text, gate,
                   meta, decision, forwarded_any, evalDoc, trace, last, faults>>

OcrArrives ==
    /\ \E d \in 1..nDocs : \E t \in LoopTexts \cup {<<WS>>} :
         /\ repoText[d] \in {<<>>, <<WS>>}
         /\ t # repoText[d]
         /\ repoText' = [repoText EXCEPT ![d] = t]
    /\ UNCHANGED <<MAX_DOCS, nDocs, labels, mailbox, ledger, clock, pc, docs, idx, text, gate,
                   meta, decision, forwarded_any, evalDoc, trace, last, faults>>

Init ==
    /\ MAX_DOCS \in PageSizes
    /\ nDocs = 0
    /\ repoText = [d \in 1..NumDocs |-> <<>>]
    /\ labels = [d \in 1..NumDocs |-> {}]
    /\ mailbox = {}
    /\ ledger = {}
    /\ clock = 0
    /\ pc = "poll"
    /\ docs = <<>>
    /\ idx = 1
    /\ text = <<>>
    /\ gate = NoGate
    /\ meta = NoMeta
    /\ decision = NoDecision
    /\ forwarded_any = FALSE
    /\ evalDoc = 0
    /\ trace = <<>>
    /\ last = "init"
    /\ faults = 0

Evaluate ==
    \/ TagAiOk \/ TagAiFail
    \/ TagInvoiceOk \/ TagInvoiceFail
    \/ DownloadOk \/ DownloadFail
    \/ SendFarmOk \/ SendFarmFail
    \/ SendItOk \/ SendItFail
    \/ TagOutcomeOk \/ TagOutcomeFail
    \/ MarkDone

Loop ==
    \/ PollOk \/ PollFail
    \/ ForEnd \/ ForDone \/ ForBegin
    \/ GetTextOk \/ GetTextSkip \/ GetTextFail
    \/ GateOk \/ GateFail
    \/ ExtractOk \/ ExtractFail
    \/ Evaluate
    \/ Sleep

Next == Loop \/ Crash \/ NewDoc \/ OcrArrives

Spec == Init /\ [][Next]_vars

(***************************************************************************)
(* One evaluation from the extract result on, for every extract result and *)
(* every non-blank text up to MaxTextLen tokens                            *)
(***************************************************************************)
Texts == {t \in SeqsUpTo(Tokens, MaxTextLen) : \E i \in 1..Len(t) : t[i] # WS}

InitDecide ==
    /\ MAX_DOCS = 1
    /\ nDocs = 1
    /\ text \in Texts
    /\ repoText = [d \in 1..NumDocs |-> IF d = 1 THEN text ELSE <<>>]
    /\ labels = [d \in 1..NumDocs |-> {}]
    /\ mailbox = {}
    /\ ledger = {}
    /\ clock = 0
    /\ pc = "tag_ai"
    /\ docs = <<1>>
    /\ idx = 1
    /\ gate = G(TRUE, 35)
    /\ meta \in Metas
    /\ decision = NoDecision
    /\ forwarded_any = FALSE
    /\ evalDoc = 1
    /\ trace = <<Call("get_text", TRUE, {}), Call("gate", TRUE, {}), Call("extract", TRUE, {})>>
    /\ last = "ok"
    /\ faults = 0

SpecDecide == InitDecide /\ [][Evaluate]_vars

(***************************************************************************)
(* Properties of the routing decision (checked under SpecDecide)           *)
(***************************************************************************)
Decided == decision # NoDecision

\* the invoice gate as the claims state it, on the classifier result
GatePassed == meta.is_invoice /\ InvoiceConfidence(meta) >= INVOICE_CONFIDENCE_MIN

HasReason(r) == \E i \in 1..Len(decision.reasons) : decision.reasons[i] = r

KwFarm == contains_any(text, KEYWORDS_FARMING)
KwIt == contains_any(text, KEYWORDS_IT)

\* C1: below the invoice gate (is_invoice false or invoice_confidence <
\* INVOICE_CONFIDENCE_MIN) decide_and_route sets neither forward flag, whatever the
\* IBAN, keyword and AI signals are, and the evaluation downloads and sends nothing.
C1_NoForwardBelowGate ==
    (Decided /\ ~GatePassed) =>
        /\ ~decision.forward_farm
        /\ ~decision.forward_it
        /\ \A i \in 1..Len(trace) : trace[i].op \notin {"download", "send_farm", "send_it"}
        /\ mailbox = {}

C1_Witness ==
    /\ pc = "mark_done"
    /\ meta.is_invoice /\ InvoiceConfidence(meta) = 59
    /\ decision.iban_match /\ decision.keyword_match /\ decision.ai_farm
    /\ decision.it_deductible
    /\ mailbox = {}

\* the forward flags before the fallback rule: the fallback is the only writer of
\* the default_farm reason and sets forward_farm alone
PreFallbackFarm == decision.forward_farm /\ ~HasReason("default_farm")
PreFallbackIt == decision.forward_it

\* C2 as stated: above the gate, before the fallback, forward[topic] = triggers AND
\* (ai_related[topic] OR keyword_match[topic] OR deductible[topic]) for both topics.
C2_Original ==
    (Decided /\ GatePassed) =>
        LET trig == decision.iban_match \/ decision.keyword_match \/ decision.ai_farm
                    \/ decision.ai_it \/ decision.it_deductible
        IN  /\ PreFallbackFarm = (trig /\ (decision.ai_farm \/ KwFarm))
            /\ PreFallbackIt = (trig /\ (decision.ai_it \/ KwIt \/ decision.it_deductible))

\* C2 amended: above the gate, before the fallback, forward_farm = triggers AND
\* (ai_farm OR farming keyword) and forward_it = triggers AND (it_deductible OR IT
\* keyword), with triggers = iban OR keyword OR ai_farm OR it_deductible; a result
\* AI-related to farming only, without keyword or IBAN, forwards to farming only; one
\* AI-related to IT only forwards to IT only, and only when it is marked deductible.
C2_ForwardRule ==
    (Decided /\ GatePassed) =>
        LET trig == decision.iban_match \/ decision.keyword_match \/ decision.ai_farm
                    \/ decision.it_deductible
            bare == ~decision.iban_match /\ ~decision.keyword_match
        IN  /\ PreFallbackFarm = (trig /\ (decision.ai_farm \/ KwFarm))
            /\ PreFallbackIt = (trig /\ (decision.it_deductible \/ KwIt))
            /\ (bare /\ decision.ai_farm /\ ~decision.ai_it) =>
                   (decision.forward_farm /\ ~decision.forward_it)
            /\ (bare /\ decision.ai_it /\ ~decision.ai_farm) =>
                   (~decision.forward_farm /\ decision.forward_it = decision.it_deductible)

C2_Witness ==
    /\ pc = "mark_done" /\ GatePassed
    /\ decision.ai_it /\ ~decision.it_deductible /\ ~decision.ai_farm
    /\ decision.iban_match /\ ~decision.keyword_match
    /\ ~decision.forward_it
    /\ mailbox = {<<1, "farm">>}

\* C3 as stated: above the gate, some topic is forwarded iff iban OR keyword OR
\* ai_related of any topic (farming or IT) OR deductible of any topic.
C3_Original ==
    (Decided /\ GatePassed) =>
        ((decision.forward_farm \/ decision.forward_it)
            <=> (decision.iban_match \/ decision.keyword_match \/ decision.ai_farm
                 \/ decision.ai_it \/ decision.it_deductible))

\* C3 amended: above the gate, some topic is forwarded iff iban OR keyword OR
\* ai_farm OR it_deductible; IT relatedness without the deductible flag is no
\* trigger, and without a trigger no topic is forwarded and nothing is sent.
C3_ForwardIffTriggers ==
    (Decided /\ GatePassed) =>
        LET trig == decision.iban_match \/ decision.keyword_match \/ decision.ai_farm
                    \/ decision.it_deductible
        IN  /\ (decision.forward_farm \/ decision.forward_it) <=> trig
            /\ ~trig => (mailbox = {} /\ pc \notin {"download", "send_farm", "send_it"})

C3_Witness ==
    /\ pc = "tag_outcome" /\ GatePassed
    /\ decision.ai_it /\ ~decision.it_deductible /\ ~decision.ai_farm
    /\ ~decision.iban_match /\ ~decision.keyword_match
    /\ ~decision.forward_farm /\ ~decision.forward_it
    /\ ~forwarded_any

\* C4: above the gate, when the only signal is the IBAN match (ai_related,
\* keyword_match and deductible false for both topics), farming alone is forwarded
\* and reasons = [iban, default_farm], the default tag being last.
C4_FallbackToDefaultTopic ==
    (Decided /\ GatePassed /\ decision.iban_match
        /\ ~decision.ai_farm /\ ~decision.ai_it /\ ~decision.it_deductible
        /\ ~KwFarm /\ ~KwIt) =>
        /\ decision.forward_farm
        /\ ~decision.forward_it
        /\ decision.reasons = <<"iban", "default_farm">>
        /\ decision.reasons[Len(decision.reasons)] = "default_farm"
        /\ (pc = "mark_done" => mailbox = {<<1, "farm">>})

C4_Witness ==
    /\ pc = "mark_done" /\ GatePassed
    /\ InvoiceConfidence(meta) = 60
    /\ decision.iban_match
    /\ ~decision.ai_farm /\ ~decision.ai_it /\ ~decision.keyword_match
    /\ decision.reasons = <<"iban", "default_farm">>
    /\ mailbox = {<<1, "farm">>}

\* C5 as stated: when decide_and_route short-circuits at the invoice gate the
\* decision has empty reasons and all forward flags false.
C5_Original ==
    (Decided /\ ~GatePassed) =>
        (decision.reasons = <<>> /\ ~decision.forward_farm /\ ~decision.forward_it)

\* C5 amended: when decide_and_route short-circuits at the invoice gate all forward
\* flags are false and reasons holds, in this order, the tags of the signals that
\* applied (iban, keyword, ai_farm, ai_it, it_deductible), never default_farm; it is
\* empty exactly when no signal applied.
C5_GatedReasons ==
    (Decided /\ ~GatePassed) =>
        /\ ~decision.forward_farm /\ ~decision.forward_it
        /\ decision.reasons =
              (IF decision.iban_match THEN <<"iban">> ELSE <<>>)
              \o (IF decision.keyword_match THEN <<"keyword">> ELSE <<>>)
              \o (IF decision.ai_farm THEN <<"ai_farm">> ELSE <<>>)
              \o (IF decision.ai_it THEN <<"ai_it">> ELSE <<>>)
              \o (IF decision.it_deductible THEN <<"it_deductible">> ELSE <<>>)
        /\ (decision.reasons = <<>>) <=>
              ~(decision.iban_match \/ decision.keyword_match \/ decision.ai_farm
                \/ decision.ai_it \/ decision.it_deductible)

C5_Witness ==
    /\ Decided /\ ~meta.is_invoice
    /\ decision.reasons = <<"iban", "keyword", "ai_farm", "ai_it", "it_deductible">>
    /\ ~decision.forward_farm /\ ~decision.forward_it

(***************************************************************************)
(* Liveness: the loop keeps taking steps; failures and crashes are finite  *)
(***************************************************************************)
FairSpec == Spec /\ WF_vars(Loop)

(***************************************************************************)
(* Properties of the poll loop and the ledger (checked under Spec)         *)
(***************************************************************************)
NonEmpty(t) == \E i \in 1..Len(t) : t[i] # WS

Ops(tr) == [i \in 1..Len(tr) |-> tr[i].op]

\* the calls of a complete evaluation, from the gate result and the decision
FullPipeline ==
    <<"get_text", "gate">>
    \o (IF gate.is_invoice /\ gate.confidence >= GATE_INVOICE_MIN THEN <<"extract">> ELSE <<>>)
    \o <<"tag">>
    \o (IF decision.invoice THEN <<"tag">> ELSE <<>>)
    \o (IF decision.forward_farm \/ decision.forward_it THEN <<"download">> ELSE <<>>)
    \o (IF decision.forward_farm THEN <<"send_farm">> ELSE <<>>)
    \o (IF decision.forward_it THEN <<"send_it">> ELSE <<>>)
    \o (IF decision.forward_farm \/ decision.forward_it \/ decision.invoice
        THEN <<"tag">> ELSE <<>>)

\* C6: whenever a document id enters the ledger, the step is mark_done of the
\* evaluation in progress, the text fetched for it was non-empty, and every call of
\* its evaluation (text, gate, extract when gated in, AI label, invoice label,
\* download and every email due, outcome labels) was made and succeeded; a step that
\* skips an empty document or raises adds nothing to the ledger.
C6_LedgerOnlyAfterFullEvaluation ==
    [][/\ \A d \in 1..NumDocs :
             (d \in DoneIds' /\ d \notin DoneIds) =>
                 /\ pc = "mark_done" /\ d = evalDoc /\ d = docs[idx]
                 /\ NonEmpty(text) /\ NonEmpty(repoText[d])
                 /\ Decided
                 /\ \A i \in 1..Len(trace) : trace[i].ok
                 /\ Ops(trace) = FullPipeline
                 /\ "ai" \in labels[d]
                 /\ decision.forward_farm => <<d, "farm">> \in mailbox
                 /\ decision.forward_it => <<d, "it">> \in mailbox
       /\ last' \in {"skip", "error", "crash"} => ledger' = ledger
      ]_vars

C6_Witness ==
    /\ evalDoc \in DoneIds
    /\ Len(trace) = 10
    /\ trace[Len(trace)].op = "mark_done"
    /\ {<<evalDoc, "farm">>, <<evalDoc, "it">>} \subseteq mailbox
    /\ faults = 0

\* C7: once a document id is in the ledger, no later step (of this or a later
\* iteration, also after a restart) makes a call for it, changes its labels, sends
\* an email for it or changes its ledger entry.
C7_DoneNeverReprocessed ==
    [][\A d \in DoneIds :
          /\ ~(evalDoc' = d /\ trace' # trace /\ trace' # <<>>)
          /\ pc' \in {"get_text", "gate", "extract", "tag_ai", "tag_invoice", "download",
                      "send_farm", "send_it", "tag_outcome", "mark_done"}
                => docs'[idx'] # d
          /\ labels'[d] = labels[d]
          /\ \A tp \in {"farm", "it"} : <<d, tp>> \in mailbox' => <<d, tp>> \in mailbox
          /\ {e \in ledger' : e.doc_id = d} = {e \in ledger : e.doc_id = d}
      ]_vars

\* a done document passed over by the for loop of a later iteration, after a restart
C7_Witness ==
    /\ pc = "for" /\ idx = 2
    /\ \E e \in ledger : e.doc_id = docs[1] /\ e.processed_utc < clock
    /\ faults > 0
    /\ labels[docs[1]] # {}

\* C8: every document that has non-empty text is eventually in the ledger, under
\* fair polling and finitely many failures.
C8_NoDocumentLost ==
    \A d \in 1..NumDocs : [](( d <= nDocs /\ NonEmpty(repoText[d])) => <>(d \in DoneIds))

\* C9: a step in which a call raises leaves the loop at its sleep, with the ledger,
\* the labels and the delivered emails as they were; after the sleep comes the next
\* poll; the loop never stops.
C9_ErrorEndsOnlyTheIteration ==
    [][/\ (faults' = faults + 1 /\ last' # "crash") =>
              /\ pc' = "sleep"
              /\ ledger' = ledger /\ labels' = labels /\ mailbox' = mailbox
              /\ pc # "poll" => docs[idx] \notin DoneIds'
       /\ (pc = "sleep" /\ last' # "crash" /\ pc' # pc) => pc' = "poll"
       /\ pc' \in {"poll", "for", "get_text", "gate", "extract", "tag_ai", "tag_invoice",
                   "download", "send_farm", "send_it", "tag_outcome", "mark_done", "sleep"}
      ]_vars

\* a failure of the outcome label write, after the email and two labels went out
C9_Witness ==
    /\ pc = "sleep" /\ last = "error"
    /\ evalDoc \notin DoneIds
    /\ <<evalDoc, "farm">> \in mailbox
    /\ labels[evalDoc] = {"ai", "invoice"}
    /\ DoneIds # {}

Classified ==
    pc \in {"tag_ai", "tag_invoice", "download", "send_farm", "send_it", "tag_outcome",
            "mark_done"}

\* the step is a call of main() that returned
CallDone == trace' # trace /\ trace' # <<>> /\ last' = "ok"

\* the tags written by the calls of tr
TagsWritten(tr) == UNION {tr[i].tags : i \in {j \in 1..Len(tr) : tr[j].op = "tag" /\ tr[j].ok}}

\* C11: when the gate result has is_invoice false or confidence < GATE_INVOICE_MIN,
\* the evaluation never calls the extract classifier; the synthesized result has
\* is_invoice false and the deductible flag false; no step of the evaluation sends an
\* email or fetches the binary; the only label it writes is the AI-processed label (no
\* invoice, forwarded, not-forwarded or reason label); and after the AI label its next
\* step marks the document done.
C11_GateRejection ==
    [][(Classified /\ ~run_big(gate) /\ last' # "crash") =>
          /\ pc \in {"tag_ai", "mark_done"}
          /\ meta = SynthMeta(gate)
          /\ ~meta.is_invoice /\ ~meta.it_deductible_for_tax
          /\ \A i \in 1..Len(trace') :
                 trace'[i].op \notin {"extract", "download", "send_farm", "send_it"}
          /\ TagsWritten(trace') \subseteq {"ai"}
          /\ mailbox' = mailbox
          /\ \A d \in 1..NumDocs :
                 labels'[d] = IF d = docs[idx] /\ pc = "tag_ai" /\ CallDone
                              THEN labels[d] \cup {"ai"} ELSE labels[d]
          /\ (pc = "tag_ai" /\ CallDone) =>
                 (pc' = "mark_done" /\ ~decision'.invoice /\ ~decision'.it_deductible
                  /\ ~decision'.forward_farm /\ ~decision'.forward_it)
          /\ (pc = "mark_done" /\ CallDone) =>
                 /\ docs[idx] \in DoneIds'
                 /\ Ops(trace') = <<"get_text", "gate", "tag", "mark_done">>
                 /\ \A i \in 1..Len(trace') : trace'[i].ok
      ]_vars

\* a document rejected by the gate, marked done with the AI label alone
C11_Witness ==
    /\ pc = "for" /\ evalDoc \in DoneIds
    /\ Ops(trace) = <<"get_text", "gate", "tag", "mark_done">>
    /\ \A i \in 1..Len(trace) : trace[i].ok
    /\ labels[evalDoc] = {"ai"}
    /\ mailbox = {}

\* the last call of tr
LastCall(tr) == tr[Len(tr)]

\* C13: a label write sets the document's labels to exactly (current labels UNION
\* given tags), so writing tags the document already carries changes nothing; no
\* other step changes any label; across evaluations and re-evaluations the label set
\* of every document only grows.
C13_LabelsUnionMonotone ==
    [][/\ \A d \in 1..NumDocs : labels[d] \subseteq labels'[d]
       /\ labels' # labels => (CallDone /\ LastCall(trace').op = "tag")
       /\ (CallDone /\ LastCall(trace').op = "tag") =>
             /\ labels' = [labels EXCEPT ![docs[idx]] = @ \cup LastCall(trace').tags]
             /\ LastCall(trace').tags \subseteq labels[docs[idx]] => labels' = labels
      ]_vars

\* a re-evaluation has written the AI label again on a document that was forwarded
\* and labelled by an earlier evaluation
C13_Witness ==
    /\ trace # <<>> /\ LastCall(trace) = Call("tag", TRUE, {"ai"})
    /\ {"ai", "invoice", "forwarded"} \subseteq labels[evalDoc]
    /\ ~decision.invoice
    /\ faults > 0

\* the positions of the calls of op in tr
Positions(tr, op) == {i \in 1..Len(tr) : tr[i].op = op}

\* C15: in every evaluation the gate classifier is called at most once, as the
\* second call, right after the fetch of a non-empty text, and an evaluation that is
\* past its classification has called it exactly once; the extract classifier is
\* called at most once, right after a gate call that returned, and it is called if
\* and only if gate.is_invoice is true and gate.confidence >= GATE_INVOICE_MIN; a
\* call that failed is the last call of its evaluation (no retry).
C15_CascadeGating ==
    /\ Cardinality(Positions(trace, "gate")) <= 1
    /\ Cardinality(Positions(trace, "extract")) <= 1
    /\ Positions(trace, "gate") \subseteq {2}
    /\ Positions(trace, "extract") \subseteq {3}
    /\ Len(trace) >= 2 =>
          (trace[1] = Call("get_text", TRUE, {}) /\ trace[2].op = "gate"
           /\ NonEmpty(repoText[evalDoc]))
    /\ Len(trace) >= 3 => trace[2].ok
    /\ \A i \in 1..Len(trace) : ~trace[i].ok => i = Len(trace)
    /\ (Len(trace) = 1 /\ trace[1].ok /\ NonEmpty(text)) => pc = "gate"
    /\ pc = "gate" => (trace = <<Call("get_text", TRUE, {})>> /\ NonEmpty(text))
    /\ pc = "extract" =>
          /\ Ops(trace) = <<"get_text", "gate">>
          /\ gate.is_invoice /\ gate.confidence >= GATE_INVOICE_MIN
    /\ Classified =>
          /\ Positions(trace, "gate") = {2}
          /\ (Positions(trace, "extract") = {3} /\ trace[3].ok)
                <=> (gate.is_invoice /\ gate.confidence >= GATE_INVOICE_MIN)

\* the extract classifier was called for a gate result exactly at the threshold
C15_Witness ==
    /\ pc = "tag_ai"
    /\ gate.is_invoice /\ gate.confidence = GATE_INVOICE_MIN
    /\ Ops(trace) = <<"get_text", "gate", "extract">>
    /\ meta \in LoopMetas

\* main() is inside the evaluation of the document at docs[idx]
Evaluating == pc \in {"get_text", "gate", "extract"} \/ Classified

\* the step has an effect on document d: a call, a label, an email or a ledger entry
Touches(d) ==
    \/ trace' # trace /\ trace' # <<>> /\ evalDoc' = d
    \/ labels'[d] # labels[d]
    \/ \E tp \in {"farm", "it"} : <<d, tp>> \in mailbox' \ mailbox
    \/ d \in DoneIds' \ DoneIds

\* C19: within one iteration the documents of the page are evaluated one at a time in
\* page order: every effect on a document is a step of the evaluation of docs[idx],
\* and the for loop moves from position idx to idx + 1 only, and only when docs[idx]
\* is in the ledger (done before, or marked done now) or was just skipped as empty.
\* A step in which a call raises leaves docs[idx] out of the ledger and ends the
\* iteration at its sleep, from where no step has an effect on any document before a
\* new page is fetched; so the documents after position idx are not fetched,
\* classified, labelled, emailed or marked done in that iteration.
C19_HeadOfLineAbort ==
    [][/\ \A d \in 1..NumDocs :
             Touches(d) => (Evaluating /\ d = docs[idx] /\ d = evalDoc /\ docs' = docs)
       /\ (idx' # idx /\ last' # "crash" /\ pc # "poll") =>
             /\ idx' = idx + 1 /\ docs' = docs /\ pc' = "for"
             /\ \/ docs[idx] \in DoneIds'
                \/ last' = "skip" /\ ~NonEmpty(repoText[docs[idx]])
       /\ (faults' = faults + 1 /\ last' = "error") =>
             /\ pc' = "sleep" /\ idx' = idx
             /\ \A j \in idx..Len(docs) : docs[j] \in DoneIds' <=> docs[j] \in DoneIds
       /\ pc = "sleep" =>
             /\ pc' \in {"sleep", "poll"}
             /\ \A d \in 1..NumDocs : ~Touches(d)
       /\ (pc = "poll" /\ pc' = "for") =>
             (docs' = paperless_get_docs(nDocs, MAX_DOCS) /\ idx' = 1)
      ]_vars

\* the evaluation of the first document of a page of two raised after its email went
\* out: the second document, with text, is untouched and the iteration is at its sleep
C19_Witness ==
    /\ pc = "sleep" /\ last = "error"
    /\ Len(docs) = 2 /\ idx = 1 /\ evalDoc = docs[1]
    /\ <<docs[1], "farm">> \in mailbox
    /\ NonEmpty(repoText[docs[2]])
    /\ labels[docs[2]] = {} /\ docs[2] \notin DoneIds
    /\ \A tp \in {"farm", "it"} : <<docs[2], tp>> \notin mailbox

\* tr has a call of op that returned, before position i
ReturnedBefore(tr, op, i) == \E j \in 1..(i - 1) : tr[j].op = op /\ tr[j].ok

\* C20: in every reachable state, a document that carries the forwarded label has an
\* email delivered for it, and the label write that carries the forwarded label comes,
\* in its evaluation, after a successful fetch of the binary and after a successful
\* send to every topic whose forward flag is true; a document in the ledger carries
\* the AI-processed label, and mark_done comes after the write of that label in its
\* evaluation.  (Conversely, C20_Witness: emails delivered for a document without
\* forwarded label and outside the ledger, whose re-evaluation is about to send again.)
C20_SideEffectOrdering ==
    /\ \A d \in 1..NumDocs :
          /\ "forwarded" \in labels[d] => \E tp \in {"farm", "it"} : <<d, tp>> \in mailbox
          /\ d \in DoneIds => "ai" \in labels[d]
    /\ \A i \in Positions(trace, "tag") :
          ("forwarded" \in trace[i].tags) =>
              /\ ReturnedBefore(trace, "download", i)
              /\ ReturnedBefore(trace, "send_farm", i) \/ ReturnedBefore(trace, "send_it", i)
              /\ \E tp \in {"farm", "it"} : <<evalDoc, tp>> \in mailbox
              /\ pc \in {"tag_outcome", "mark_done"} =>
                    /\ decision.forward_farm =>
                          (ReturnedBefore(trace, "send_farm", i) /\ <<evalDoc, "farm">> \in mailbox)
                    /\ decision.forward_it =>
                          (ReturnedBefore(trace, "send_it", i) /\ <<evalDoc, "it">> \in mailbox)
    /\ pc = "tag_outcome" =>
          /\ decision.forward_farm =>
                (ReturnedBefore(trace, "send_farm", Len(trace) + 1)
                 /\ <<docs[idx], "farm">> \in mailbox)
          /\ decision.forward_it =>
                (ReturnedBefore(trace, "send_it", Len(trace) + 1)
                 /\ <<docs[idx], "it">> \in mailbox)
    /\ \A i \in Positions(trace, "mark_done") :
          \E j \in 1..(i - 1) : trace[j] = Call("tag", TRUE, {"ai"})

\* document 1 is forwarded, labelled and in the ledger; the email of document 2 went
\* out before a failure, it has no forwarded label and is not in the ledger, and its
\* re-evaluation is about to send the email again
C20_Witness ==
    /\ 1 \in DoneIds /\ "forwarded" \in labels[1] /\ <<1, "farm">> \in mailbox
    /\ pc = "send_farm" /\ docs[idx] = 2 /\ evalDoc = 2
    /\ <<2, "farm">> \in mailbox
    /\ "forwarded" \notin labels[2]
    /\ 2 \notin DoneIds
    /\ faults > 0

(***************************************************************************)
(* Properties of the outcome labels (checked under SpecDecide)             *)
(***************************************************************************)
\* the distinct tags of a reasons sequence
Distinct(rs) == {rs[i] : i \in 1..Len(rs)}

\* the label that stands for a reason
ReasonLabel(r) ==
    CASE r = "iban" -> "reason_iban"
      [] r = "keyword" -> "reason_keyword"
      [] r = "ai_farm" -> "topic_farm"
      [] r = "ai_it" -> "topic_it"
      [] r = "it_deductible" -> "it_deductible"
      [] OTHER -> r

\* the outcome step has run after a forwarding; its label write is the last call
OutcomeApplied ==
    pc = "mark_done" /\ forwarded_any /\ LastCall(trace).op = "tag" /\ LastCall(trace).ok

\* C14 as stated: after any forwarding, the outcome step applies the forwarded label
\* plus exactly one label for each distinct reason of decision.reasons, the
\* default-topic reason included.
C14_Original ==
    OutcomeApplied =>
        /\ "forwarded" \in LastCall(trace).tags
        /\ LastCall(trace).tags \ {"forwarded"} =
               {ReasonLabel(r) : r \in Distinct(decision.reasons)}

\* C14 amended: after any forwarding, the outcome step applies the forwarded label
\* plus exactly one label for each distinct reason of decision.reasons other than
\* default_farm (iban, keyword, ai_farm, ai_it, it_deductible); the default_farm
\* reason has no label.
C14_ReasonLabels ==
    OutcomeApplied =>
        /\ "forwarded" \in LastCall(trace).tags
        /\ LastCall(trace).tags \ {"forwarded"} =
               {ReasonLabel(r) : r \in Distinct(decision.reasons) \ {"default_farm"}}
        /\ LastCall(trace).tags \subseteq Tags
        /\ labels[docs[idx]] = {"ai", "invoice"} \cup LastCall(trace).tags

\* a forwarding by the fallback alone, labelled forwarded and reason_iban
C14_Witness ==
    /\ OutcomeApplied
    /\ decision.reasons = <<"iban", "default_farm">>
    /\ LastCall(trace).tags = {"forwarded", "reason_iban"}
    /\ mailbox = {<<1, "farm">>}

\* the number of calls of op in tr
Count(tr, op) == Cardinality(Positions(tr, op))

\* C16: an evaluation fetches the binary content at most once, and only when a
\* forward flag is true, before any email; it sends at most one email per topic, and
\* none to a topic whose forward flag is false; when it has completed its dispatch it
\* has fetched the binary exactly once if some topic forwards and has sent exactly
\* one email to each topic whose forward flag is true, all of them delivered.
C16_EmailDispatch ==
    /\ Count(trace, "download") <= 1
    /\ Count(trace, "send_farm") <= 1
    /\ Count(trace, "send_it") <= 1
    /\ \A i \in Positions(trace, "send_farm") \cup Positions(trace, "send_it") :
          \E j \in Positions(trace, "download") : j < i /\ trace[j].ok
    /\ (Classified /\ Decided) =>
          /\ Count(trace, "download") > 0 => (decision.forward_farm \/ decision.forward_it)
          /\ Count(trace, "send_farm") > 0 => decision.forward_farm
          /\ Count(trace, "send_it") > 0 => decision.forward_it
          /\ <<docs[idx], "farm">> \in mailbox => decision.forward_farm
          /\ <<docs[idx], "it">> \in mailbox => decision.forward_it
    /\ pc \in {"tag_outcome", "mark_done"} =>
          /\ Count(trace, "download") =
                (IF decision.forward_farm \/ decision.forward_it THEN 1 ELSE 0)
          /\ Count(trace, "send_farm") = (IF decision.forward_farm THEN 1 ELSE 0)
          /\ Count(trace, "send_it") = (IF decision.forward_it THEN 1 ELSE 0)
          /\ mailbox = {<<docs[idx], tp>> : tp \in
                          (IF decision.forward_farm THEN {"farm"} ELSE {})
                          \cup (IF decision.forward_it THEN {"it"} ELSE {})}
          /\ forwarded_any = (decision.forward_farm \/ decision.forward_it)

\* both topics forwarded: one fetch of the binary, one email each
C16_Witness ==
    /\ pc = "mark_done"
    /\ decision.forward_farm /\ decision.forward_it
    /\ Ops(trace) = <<"get_text", "gate", "extract", "tag", "tag", "download", "send_farm",
                      "send_it", "tag">>
    /\ mailbox = {<<1, "farm">>, <<1, "it">>}

\* C17: when an evaluation has applied its outcome, the labels it has written are:
\* the AI-processed label, always; the invoice label iff decision.invoice; the
\* forwarded label iff at least one email was sent; the not-forwarded label iff no
\* email was sent and decision.invoice; so never both forwarded and not-forwarded,
\* and neither of the two when the document is not an invoice.
C17_OutcomeLabels ==
    pc = "mark_done" =>
        LET written == TagsWritten(trace)
            sent == Count(trace, "send_farm") + Count(trace, "send_it") > 0
        IN  /\ "ai" \in written
            /\ "invoice" \in written <=> decision.invoice
            /\ "forwarded" \in written <=> sent
            /\ "not_forwarded" \in written <=> (~sent /\ decision.invoice)
            /\ ~({"forwarded", "not_forwarded"} \subseteq written)
            /\ ~decision.invoice => written \cap {"forwarded", "not_forwarded"} = {}
            /\ labels[docs[idx]] = written
            /\ sent = forwarded_any

\* an invoice above the gate without any trigger: labelled invoice and not_forwarded
C17_Witness ==
    /\ pc = "mark_done"
    /\ decision.invoice /\ GatePassed
    /\ mailbox = {}
    /\ labels[docs[idx]] = {"ai", "invoice", "not_forwarded"}

\* the fixed order of the reason tags
ReasonOrder == <<"iban", "keyword", "ai_farm", "ai_it", "it_deductible", "default_farm">>

Rank(r) == CHOOSE k \in 1..Len(ReasonOrder) : ReasonOrder[k] = r

\* C18: decision.reasons is an order-preserving subsequence of [iban, keyword,
\* ai_farm, ai_it, it_deductible, default_farm] without repetition; it contains iban,
\* keyword, ai_farm, ai_it, it_deductible exactly when that signal applied, and
\* default_farm exactly when the fallback applied (above the gate, a trigger, and no
\* topic forwarded by the forward rule); default_farm, when present, is last;
\* it_deductible is present only if ai_it is, being the classifier's flag AND ai_it.
C18_ReasonsOrder ==
    Decided =>
        LET rs == decision.reasons
            trig == decision.iban_match \/ decision.keyword_match \/ decision.ai_farm
                    \/ decision.it_deductible
            fallback == /\ GatePassed /\ trig
                        /\ ~(decision.ai_farm \/ KwFarm)
                        /\ ~(decision.it_deductible \/ KwIt)
        IN  /\ \A i \in 1..Len(rs) : \E k \in 1..Len(ReasonOrder) : ReasonOrder[k] = rs[i]
            /\ \A i \in 1..Len(rs) : \A j \in 1..Len(rs) :
                  i < j => Rank(rs[i]) < Rank(rs[j])
            /\ HasReason("iban") <=> matches_specific_iban(text)
            /\ HasReason("keyword") <=> (KwFarm \/ KwIt)
            /\ HasReason("ai_farm") <=>
                  (meta.is_farming_related /\ meta.farming_confidence >= TOPIC_CONFIDENCE_MIN)
            /\ HasReason("ai_it") <=>
                  (meta.is_it_related /\ meta.it_confidence >= TOPIC_CONFIDENCE_MIN)
            /\ HasReason("it_deductible") <=>
                  (meta.it_deductible_for_tax /\ HasReason("ai_it"))
            /\ HasReason("default_farm") <=> fallback
            /\ HasReason("default_farm") => rs[Len(rs)] = "default_farm"
            /\ HasReason("it_deductible") => HasReason("ai_it")

\* every signal applies above the gate: the five signal tags in order, no default
C18_Witness ==
    /\ Decided /\ GatePassed
    /\ meta.it_deductible_for_tax
    /\ decision.reasons = <<"iban", "keyword", "ai_farm", "ai_it", "it_deductible">>
    /\ decision.forward_farm /\ decision.forward_it

(***************************************************************************)
(* The ledger on its own: mark_done called for any document id at any      *)
(* time, any number of times                                               *)
(***************************************************************************)
\* db_init() on a fresh database
InitLedger ==
    /\ MAX_DOCS = 1
    /\ nDocs = NumDocs
    /\ repoText = [d \in 1..NumDocs |-> <<>>]
    /\ labels = [d \in 1..NumDocs |-> {}]
    /\ mailbox = {}
    /\ ledger = {}
    /\ clock = 0
    /\ pc = "mark_done"
    /\ docs = <<>>
    /\ idx = 1
    /\ text = <<>>
    /\ gate = NoGate
    /\ meta = NoMeta
    /\ decision = NoDecision
    /\ forwarded_any = FALSE
    /\ evalDoc = 0
    /\ trace = <<>>
    /\ last = "init"
    /\ faults = 0

\* mark_done(doc_id)
LedgerMarkDone ==
    /\ \E id \in 1..NumDocs :
         /\ ledger' = mark_done(ledger, id, clock)
         /\ evalDoc' = id
    /\ last' = "mark_done"
    /\ UNCHANGED <<MAX_DOCS, nDocs, repoText, labels, mailbox, clock, pc, docs, idx, text, gate,
                   meta, decision, forwarded_any, trace, faults>>

\* time.time() advances between calls
LedgerTick ==
    /\ clock < MaxLedgerClock
    /\ clock' = clock + 1
    /\ last' = "tick"
    /\ UNCHANGED <<MAX_DOCS, nDocs, repoText, labels, mailbox, ledger, pc, docs, idx, text, gate,
                   meta, decision, forwarded_any, evalDoc, trace, faults>>

NextLedger == LedgerMarkDone \/ LedgerTick

SpecLedger == InitLedger /\ [][NextLedger]_vars

\* C12: the ledger holds at most one entry per document id; a mark_done(id) on an
\* id already in the ledger leaves the ledger, and so the entry and its processed
\* timestamp, unchanged; the first mark_done(id) adds the entry with the current
\* time; already_done(id), once true, is true in every later state and the entry of
\* id is never updated or deleted.
C12_LedgerIdempotence ==
    [][/\ \A e1 \in ledger' : \A e2 \in ledger' : e1.doc_id = e2.doc_id => e1 = e2
       /\ \A id \in 1..NumDocs :
             already_done(ledger, id) =>
                 /\ already_done(ledger', id)
                 /\ {e \in ledger' : e.doc_id = id} = {e \in ledger : e.doc_id = id}
       /\ last' = "mark_done" =>
             /\ already_done(ledger', evalDoc')
             /\ already_done(ledger, evalDoc') => ledger' = ledger
             /\ ~already_done(ledger, evalDoc') =>
                    ledger' = ledger \cup {[doc_id |-> evalDoc', processed_utc |-> clock]}
      ]_vars

\* mark_done called again for a document whose entry is older than the call
C12_Witness ==
    /\ last = "mark_done"
    /\ [doc_id |-> evalDoc, processed_utc |-> 0] \in ledger
    /\ clock = 2
    /\ Cardinality(ledger) = NumDocs

====
